---- MODULE Spec2Model ----
(***************************************************************************)
(* FormManager (src/FormManager.ts; src/unnamed/part_000 is the same code   *)
(* under its earlier names: controls, addControl, onControlValueChange...).  *)
(*                                                                         *)
(* A JavaScript object used as a string-keyed table enumerates its keys in  *)
(* insertion order, so each of the two tables of the manager is a sequence  *)
(* of FormField records, one per key, in key order.                         *)
(***************************************************************************)
EXTENDS Naturals, Sequences, FiniteSets

(* ------------------------------ bounds --------------------------------- *)

\* Number of state-changing calls made on one FormManager.
MaxOps == 6

\* Field names the caller uses.
Names == {"a", "b"}

\* The JavaScript number NaN, the one value that is not === to itself.
NaN == "NaN"

\* Values the caller passes as newValue.
Values == {"", "US", "CA", NaN}

\* The reasonForRunningConditional a caller passes to runConditional itself.
Reasons == {"init"}

\* Values the caller passes to addFormField.
InitialValues == {""}

(* ------------------------- values and equality -------------------------- *)

\* formField.value === newValue
StrictEquals(x, y) == x = y /\ x # NaN

\* value.length of the strings used here; NaN.length is undefined, and every
\* comparison of undefined with a number is false.
HasLength(v) == v # NaN

Length(v) == IF v = "" THEN 0 ELSE 2

(* ------------------------------ rules ----------------------------------- *)

REQUIRED_RULE == [type |-> "REQUIRED", errorMessage |-> "is required"]

MinCharacters == 3

MIN_LENGTH_RULE == [type |-> "MIN_LENGTH", errorMessage |-> "too short"]

\* rule.validate(value, form) of the two rules above
Validate(rule, value) ==
    IF rule.type = "REQUIRED"
    THEN HasLength(value) /\ Length(value) > 0
    ELSE HasLength(value) /\ Length(value) >= MinCharacters

\* The rule lists a caller assigns to formField.validationRules.
RuleLists == { <<REQUIRED_RULE>>, <<REQUIRED_RULE, MIN_LENGTH_RULE>> }

(* --------------------------- conditionals ------------------------------- *)

\* new FormFieldConditional([], (event) => true)
DefaultConditional == [dependencies |-> <<>>, isShowing |-> "TRUE", of |-> ""]

\* new FormFieldConditional([d], e => <value of field d of e.form> === "US")
IsUSConditional(d) == [dependencies |-> <<d>>, isShowing |-> "IS_US", of |-> d]

\* The conditionals a caller assigns to formField.conditional.
Conditionals == { IsUSConditional(d) : d \in Names }

\* dependencies.indexOf(name) > -1
HasDependency(formField, name) ==
    \E i \in 1..Len(formField.conditional.dependencies) :
        formField.conditional.dependencies[i] = name

(* ------------------------------ fields ---------------------------------- *)

\* new FormField(name, initialValue)
NewFormField(name, initialValue) ==
    [ name            |-> name,
      value           |-> initialValue,
      isValid         |-> FALSE,
      isTouched       |-> FALSE,
      errorMessage    |-> "",
      validationRules |-> <<>>,
      conditional     |-> DefaultConditional,
      isShowing       |-> TRUE ]

(* ------------------------- string-keyed tables -------------------------- *)

\* Object.keys(table)
Keys(table) == [i \in 1..Len(table) |-> table[i].name]

\* table[name] is not undefined
Has(table, name) == \E i \in 1..Len(table) : table[i].name = name

\* table[name]
Lookup(table, name) == table[CHOOSE i \in 1..Len(table) : table[i].name = name]

\* table[name] = formField : an existing key keeps its place, a new one is last
Put(table, name, formField) ==
    IF Has(table, name)
    THEN [i \in 1..Len(table) |-> IF table[i].name = name THEN formField ELSE table[i]]
    ELSE Append(table, formField)

\* delete table[name]
Delete(table, name) == SelectSeq(table, LAMBDA f : f.name # name)

(* ------------------------------- state ---------------------------------- *)

VARIABLES
    formFields,                     \* FormManager.formFields
    conditionallyRemovedFormFields, \* FormManager.conditionallyRemovedFormFields
    call,                           \* the last call: operation, arguments, outcome
    ret,                            \* what the last call returned
    isShowingCalls,                 \* conditional.isShowing calls of the last call
    validateCalls,                  \* rule.validate calls of the last call
    added,                          \* names added and not given to removeFormField since
    nOps                            \* state-changing calls made so far

vars == << formFields, conditionallyRemovedFormFields, call, ret,
           isShowingCalls, validateCalls, added, nOps >>

\* The manager as the operations below read and write it.
Form(ff, removed) ==
    [ formFields |-> ff,
      conditionallyRemovedFormFields |-> removed,
      isShowingCalls |-> <<>>,
      validateCalls |-> <<>>,
      threw |-> FALSE ]

ThisForm == Form(formFields, conditionallyRemovedFormFields)

Undefined == [kind |-> "undefined"]

\* throw new Error(`${name} form field does not exist.`)
Throw(form) == [form EXCEPT !.threw = TRUE]

(* ---------------------------- conditionals ------------------------------ *)

\* conditional.isShowing(conditionalEvent): the caller's predicate.  IS_US reads
\* the value of the field it names through event.form, from whichever table
\* holds that name (the visible one first); a name in neither reads undefined.
IsShowing(conditional, event) ==
    IF conditional.isShowing = "TRUE" THEN TRUE
    ELSE IF Has(event.form.formFields, conditional.of)
         THEN StrictEquals(Lookup(event.form.formFields, conditional.of).value, "US")
    ELSE IF Has(event.form.conditionallyRemovedFormFields, conditional.of)
         THEN StrictEquals(Lookup(event.form.conditionallyRemovedFormFields,
                                  conditional.of).value, "US")
    ELSE FALSE

(* ----------------------------- operations ------------------------------- *)

\* addFormField(name, initialValue)
addFormField(form, name, initialValue) ==
    [form EXCEPT !.formFields = Put(@, name, NewFormField(name, initialValue))]

\* removeFormField(name)
removeFormField(form, name) ==
    [form EXCEPT !.formFields = Delete(@, name)]

\* isFormValid() had it also looked at the conditionally removed fields
isFormValid_EveryField(form) ==
    /\ \A i \in 1..Len(form.formFields) : form.formFields[i].isValid
    /\ \A i \in 1..Len(form.conditionallyRemovedFormFields) :
           form.conditionallyRemovedFormFields[i].isValid

\* isFormValid(): the loop from key i on, with its break
RECURSIVE isFormValidFrom(_, _)
isFormValidFrom(form, i) ==
    IF i > Len(Keys(form.formFields)) THEN TRUE
    ELSE IF ~Lookup(form.formFields, Keys(form.formFields)[i]).isValid THEN FALSE
    ELSE isFormValidFrom(form, i + 1)

isFormValid(form) == isFormValidFrom(form, 1)

\* getVisibleFormFields()
getVisibleFormFields(form) == form.formFields

\* getConditionallyRemovedFormFields()
getConditionallyRemovedFormFields(form) == form.conditionallyRemovedFormFields

\* getVisibleFormFieldByName(name)
getVisibleFormFieldByName(form, name) ==
    IF Has(form.formFields, name)
    THEN [kind |-> "field", field |-> Lookup(form.formFields, name)]
    ELSE [kind |-> "undefined"]

\* getValues(): the values object, as its (key, value) pairs in key order
getValues(form) ==
    [i \in 1..Len(form.formFields) |->
        [name |-> form.formFields[i].name, value |-> form.formFields[i].value]]

\* getValidityOfFormField(formField): the loop from rule i on, with its break;
\* calls lists the rule.validate calls made
RECURSIVE getValidityFrom(_, _)
getValidityFrom(formField, i) ==
    IF i > Len(formField.validationRules)
    THEN [isValid |-> TRUE, errorMessage |-> "", calls |-> <<>>]
    ELSE LET rule == formField.validationRules[i]
             thisCall == [name |-> formField.name, type |-> rule.type,
                          value |-> formField.value]
         IN  IF ~Validate(rule, formField.value)
             THEN [isValid |-> FALSE, errorMessage |-> rule.errorMessage,
                   calls |-> <<thisCall>>]
             ELSE LET rest == getValidityFrom(formField, i + 1)
                  IN  [rest EXCEPT !.calls = <<thisCall>> \o @]

\* getValidityOfFormField without the break: every rule runs, the last failure wins
getValidityOfFormField_NoBreak(formField) ==
    LET rules == formField.validationRules
        failing == { i \in 1..Len(rules) : ~Validate(rules[i], formField.value) }
        calls == [i \in 1..Len(rules) |->
                     [name |-> formField.name, type |-> rules[i].type,
                      value |-> formField.value]]
    IN  IF failing = {}
        THEN [isValid |-> TRUE, errorMessage |-> "", calls |-> calls]
        ELSE [isValid |-> FALSE,
              errorMessage |->
                  rules[CHOOSE i \in failing : \A j \in failing : j <= i].errorMessage,
              calls |-> calls]

getValidityOfFormField(formField) == getValidityFrom(formField, 1)

\* runValidations had it written isValid and left errorMessage as it was
runValidations_KeepsMessage(form, name) ==
    IF ~Has(form.formFields, name) THEN Throw(form)
    ELSE LET control == Lookup(form.formFields, name)
             validityObj == getValidityOfFormField(control)
         IN  [form EXCEPT
                !.formFields = Put(@, name,
                    [control EXCEPT !.isValid = validityObj.isValid]),
                !.validateCalls = @ \o validityObj.calls]

\* runValidations(name)
runValidations(form, name) ==
    IF ~Has(form.formFields, name) THEN Throw(form)
    ELSE LET control == Lookup(form.formFields, name)
             validityObj == getValidityOfFormField(control)
         IN  [form EXCEPT
                !.formFields = Put(@, name,
                    [control EXCEPT !.isValid = validityObj.isValid,
                                    !.errorMessage = validityObj.errorMessage]),
                !.validateCalls = @ \o validityObj.calls]

\* runConditional had it asked the predicate of visible fields only and shown
\* every field it finds in conditionallyRemovedFormFields
runConditional_ShowsRemoved(form, name, reasonForRunningConditional) ==
    IF ~Has(form.formFields, name) /\ ~Has(form.conditionallyRemovedFormFields, name)
    THEN Throw(form)
    ELSE LET wasVisible == Has(form.formFields, name)
             formField == IF wasVisible THEN Lookup(form.formFields, name)
                          ELSE Lookup(form.conditionallyRemovedFormFields, name)
             conditionalEvent == [formField |-> formField,
                                  reason |-> reasonForRunningConditional,
                                  form |-> form]
             isShowing == ~wasVisible
                          \/ IsShowing(formField.conditional, conditionalEvent)
             logged == [form EXCEPT !.isShowingCalls =
                           Append(@, [name |-> name,
                                      formField |-> formField,
                                      reason |-> reasonForRunningConditional])]
         IN  IF isShowing
             THEN [logged EXCEPT
                     !.formFields = Put(@, name, formField),
                     !.conditionallyRemovedFormFields = Delete(@, name)]
             ELSE [logged EXCEPT
                     !.conditionallyRemovedFormFields = Put(@, name, formField),
                     !.formFields = Delete(@, name)]

\* runConditional(name, reasonForRunningConditional)
runConditional(form, name, reasonForRunningConditional) ==
    IF ~Has(form.formFields, name) /\ ~Has(form.conditionallyRemovedFormFields, name)
    THEN Throw(form)
    ELSE LET controlsObjToUse ==
                 IF Has(form.formFields, name) THEN form.formFields
                 ELSE form.conditionallyRemovedFormFields
             formField == Lookup(controlsObjToUse, name)
             conditionalEvent == [formField |-> formField,
                                  reason |-> reasonForRunningConditional,
                                  form |-> form]
             isShowing == IsShowing(formField.conditional, conditionalEvent)
             logged == [form EXCEPT !.isShowingCalls =
                           Append(@, [name |-> name,
                                      formField |-> formField,
                                      reason |-> reasonForRunningConditional])]
         IN  IF isShowing
             THEN [logged EXCEPT
                     !.formFields = Put(@, name, formField),
                     !.conditionallyRemovedFormFields = Delete(@, name)]
             ELSE [logged EXCEPT
                     !.conditionallyRemovedFormFields = Put(@, name, formField),
                     !.formFields = Delete(@, name)]

\* for (i = ...; i < fieldNames.length; i++) this.runConditional(fieldNames[i], name)
RECURSIVE runConditionalsFrom(_, _, _, _)
runConditionalsFrom(form, fieldNames, i, name) ==
    IF i > Len(fieldNames) \/ form.threw THEN form
    ELSE runConditionalsFrom(runConditional(form, fieldNames[i], name),
                             fieldNames, i + 1, name)

\* Object.keys(table).filter(n => table[n].conditional.dependencies.indexOf(name) > -1)
FieldsWithDepsOn(table, name) ==
    SelectSeq(Keys(table), LAMBDA n : HasDependency(Lookup(table, n), name))

\* The two loops of updateFormFieldStateOnValueChange: the visible fields that
\* depend on name, then the removed fields that depend on name.
Propagate(form, name) ==
    LET fieldsWithDepsOnField == FieldsWithDepsOn(form.formFields, name)
        afterVisible == runConditionalsFrom(form, fieldsWithDepsOnField, 1, name)
        fieldsWithDeps ==
            FieldsWithDepsOn(afterVisible.conditionallyRemovedFormFields, name)
    IN  IF afterVisible.threw THEN afterVisible
        ELSE runConditionalsFrom(afterVisible, fieldsWithDeps, 1, name)

\* ValueChange had isTouched been set after the same-value return, not before
ValueChange_TouchAfterReturn(form, name, newValue) ==
    LET formField == Lookup(form.formFields, name)
        isSameValue == StrictEquals(formField.value, newValue)
    IN  IF isSameValue THEN form
        ELSE LET written == [form EXCEPT !.formFields =
                                Put(@, name, [formField EXCEPT !.isTouched = TRUE,
                                                               !.value = newValue])]
                 validated == runValidations(written, name)
             IN  IF validated.threw THEN validated
                 ELSE Propagate(validated, name)

\* ValueChange without the same-value return
ValueChange_NoSameValueReturn(form, name, newValue) ==
    LET formField == Lookup(form.formFields, name)
        written == [form EXCEPT !.formFields =
                       Put(@, name, [formField EXCEPT !.isTouched = TRUE,
                                                      !.value = newValue])]
        validated == runValidations(written, name)
    IN  IF validated.threw THEN validated
        ELSE Propagate(validated, name)

\* ValueChange had the validation been run before the value is written
ValueChange_ValidatesBeforeWrite(form, name, newValue) ==
    LET formField == Lookup(form.formFields, name)
        touched == [formField EXCEPT !.isTouched = TRUE]
        isSameValue == StrictEquals(formField.value, newValue)
    IN  IF isSameValue
        THEN [form EXCEPT !.formFields = Put(@, name, touched)]
        ELSE LET validated ==
                     runValidations([form EXCEPT !.formFields = Put(@, name, touched)],
                                    name)
                 written == [validated EXCEPT !.formFields =
                                Put(@, name,
                                    [Lookup(@, name) EXCEPT !.value = newValue])]
             IN  IF validated.threw THEN validated
                 ELSE Propagate(written, name)

\* updateFormFieldStateOnValueChange past its existence check: isTouched, the
\* same-value return, the write, the validation and the two loops
ValueChange(form, name, newValue) ==
    LET formField == Lookup(form.formFields, name)
        touched == [formField EXCEPT !.isTouched = TRUE]
        isSameValue == StrictEquals(formField.value, newValue)
    IN  IF isSameValue
        THEN [form EXCEPT !.formFields = Put(@, name, touched)]
        ELSE LET written == [form EXCEPT !.formFields =
                                Put(@, name, [touched EXCEPT !.value = newValue])]
                 validated == runValidations(written, name)
             IN  IF validated.threw THEN validated
                 ELSE Propagate(validated, name)

\* updateFormFieldStateOnValueChange had it, like runConditional, fallen back
\* to the conditionally removed field of that name
updateFormFieldStateOnValueChange_EitherTable(form, name, newValue) ==
    IF Has(form.formFields, name) THEN ValueChange(form, name, newValue)
    ELSE IF Has(form.conditionallyRemovedFormFields, name)
    THEN [form EXCEPT !.conditionallyRemovedFormFields =
             Put(@, name, [Lookup(@, name) EXCEPT !.isTouched = TRUE,
                                                  !.value = newValue])]
    ELSE Throw(form)

\* updateFormFieldStateOnValueChange(name, newValue)
updateFormFieldStateOnValueChange(form, name, newValue) ==
    IF ~Has(form.formFields, name) THEN Throw(form)
    ELSE ValueChange(form, name, newValue)

\* updateFormFieldStateOnBlur had it run the dependents' conditionals after the
\* validation, as a value change does
updateFormFieldStateOnBlur_Propagates(form, name) ==
    IF ~Has(form.formFields, name) THEN Throw(form)
    ELSE LET formField == Lookup(form.formFields, name)
         IN  Propagate(
                 runValidations(
                     [form EXCEPT !.formFields =
                         Put(@, name, [formField EXCEPT !.isTouched = TRUE])],
                     name),
                 name)

\* updateFormFieldStateOnBlur(name)
updateFormFieldStateOnBlur(form, name) ==
    IF ~Has(form.formFields, name) THEN Throw(form)
    ELSE LET formField == Lookup(form.formFields, name)
         IN  runValidations(
                 [form EXCEPT !.formFields =
                     Put(@, name, [formField EXCEPT !.isTouched = TRUE])],
                 name)

(* ------------------------------ actions --------------------------------- *)

Init ==
    /\ formFields = <<>>
    /\ conditionallyRemovedFormFields = <<>>
    /\ call = [op |-> "new", name |-> "", arg |-> "", threw |-> FALSE,
               again |-> FALSE]
    /\ ret = Undefined
    /\ isShowingCalls = <<>>
    /\ validateCalls = <<>>
    /\ added = {}
    /\ nOps = 0

\* The manager's tables and the logs of one call, after that call.
Becomes(form) ==
    /\ formFields' = form.formFields
    /\ conditionallyRemovedFormFields' = form.conditionallyRemovedFormFields
    /\ isShowingCalls' = form.isShowingCalls
    /\ validateCalls' = form.validateCalls

\* again: the call repeats the operation and arguments of the call before it
Called(op, name, arg, form) ==
    call' = [op |-> op, name |-> name, arg |-> arg, threw |-> form.threw,
             again |-> call.op = op /\ call.name = name /\ call.arg = arg]

AddFormField(name, initialValue) ==
    LET form == addFormField(ThisForm, name, initialValue) IN
    /\ nOps < MaxOps
    /\ Becomes(form)
    /\ Called("addFormField", name, initialValue, form)
    /\ ret' = [kind |-> "field", field |-> Lookup(form.formFields, name)]
    /\ added' = added \cup {name}
    /\ nOps' = nOps + 1

RemoveFormField(name) ==
    LET form == removeFormField(ThisForm, name) IN
    /\ nOps < MaxOps
    /\ Becomes(form)
    /\ Called("removeFormField", name, "", form)
    /\ ret' = IF Has(formFields, name)
              THEN [kind |-> "field", field |-> Lookup(formFields, name)]
              ELSE Undefined
    /\ added' = added \ {name}
    /\ nOps' = nOps + 1

IsFormValid ==
    /\ Becomes(ThisForm)
    /\ Called("isFormValid", "", "", ThisForm)
    /\ ret' = [kind |-> "boolean", value |-> isFormValid(ThisForm)]
    /\ UNCHANGED << added, nOps >>

GetValues ==
    /\ Becomes(ThisForm)
    /\ Called("getValues", "", "", ThisForm)
    /\ ret' = [kind |-> "values", values |-> getValues(ThisForm)]
    /\ UNCHANGED << added, nOps >>

GetVisibleFormFields ==
    /\ Becomes(ThisForm)
    /\ Called("getVisibleFormFields", "", "", ThisForm)
    /\ ret' = [kind |-> "fields", fields |-> getVisibleFormFields(ThisForm)]
    /\ UNCHANGED << added, nOps >>

GetConditionallyRemovedFormFields ==
    /\ Becomes(ThisForm)
    /\ Called("getConditionallyRemovedFormFields", "", "", ThisForm)
    /\ ret' = [kind |-> "fields",
               fields |-> getConditionallyRemovedFormFields(ThisForm)]
    /\ UNCHANGED << added, nOps >>

GetVisibleFormFieldByName(name) ==
    /\ Becomes(ThisForm)
    /\ Called("getVisibleFormFieldByName", name, "", ThisForm)
    /\ ret' = getVisibleFormFieldByName(ThisForm, name)
    /\ UNCHANGED << added, nOps >>

RunValidations(name) ==
    LET form == runValidations(ThisForm, name) IN
    /\ nOps < MaxOps
    /\ Becomes(form)
    /\ Called("runValidations", name, "", form)
    /\ ret' = Undefined
    /\ nOps' = nOps + 1
    /\ UNCHANGED added

RunConditional(name, reason) ==
    LET form == runConditional(ThisForm, name, reason) IN
    /\ nOps < MaxOps
    /\ Becomes(form)
    /\ Called("runConditional", name, reason, form)
    /\ ret' = Undefined
    /\ nOps' = nOps + 1
    /\ UNCHANGED added

UpdateFormFieldStateOnValueChange(name, newValue) ==
    LET form == updateFormFieldStateOnValueChange(ThisForm, name, newValue) IN
    /\ nOps < MaxOps
    /\ Becomes(form)
    /\ Called("updateFormFieldStateOnValueChange", name, newValue, form)
    /\ ret' = Undefined
    /\ nOps' = nOps + 1
    /\ UNCHANGED added

UpdateFormFieldStateOnBlur(name) ==
    LET form == updateFormFieldStateOnBlur(ThisForm, name) IN
    /\ nOps < MaxOps
    /\ Becomes(form)
    /\ Called("updateFormFieldStateOnBlur", name, "", form)
    /\ ret' = Undefined
    /\ nOps' = nOps + 1
    /\ UNCHANGED added

\* The caller's  form.getVisibleFormFieldByName(name).validationRules = rules
SetValidationRules(name, rules) ==
    /\ nOps < MaxOps
    /\ Has(formFields, name)
    /\ Becomes([ThisForm EXCEPT !.formFields =
           Put(@, name, [Lookup(@, name) EXCEPT !.validationRules = rules])])
    /\ Called("validationRules", name, "", ThisForm)
    /\ ret' = Undefined
    /\ nOps' = nOps + 1
    /\ UNCHANGED added

\* The caller's  form.getVisibleFormFieldByName(name).conditional = conditional
SetConditional(name, conditional) ==
    /\ nOps < MaxOps
    /\ Has(formFields, name)
    /\ Becomes([ThisForm EXCEPT !.formFields =
           Put(@, name, [Lookup(@, name) EXCEPT !.conditional = conditional])])
    /\ Called("conditional", name, "", ThisForm)
    /\ ret' = Undefined
    /\ nOps' = nOps + 1
    /\ UNCHANGED added

Next ==
    \/ \E name \in Names, initialValue \in InitialValues :
           AddFormField(name, initialValue)
    \/ \E name \in Names : RemoveFormField(name)
    \/ IsFormValid
    \/ GetValues
    \/ GetVisibleFormFields
    \/ GetConditionallyRemovedFormFields
    \/ \E name \in Names : GetVisibleFormFieldByName(name)
    \/ \E name \in Names : RunValidations(name)
    \/ \E name \in Names, reason \in Reasons : RunConditional(name, reason)
    \/ \E name \in Names, newValue \in Values :
           UpdateFormFieldStateOnValueChange(name, newValue)
    \/ \E name \in Names : UpdateFormFieldStateOnBlur(name)
    \/ \E name \in Names, rules \in RuleLists : SetValidationRules(name, rules)
    \/ \E name \in Names, conditional \in Conditionals :
           SetConditional(name, conditional)

Spec == Init /\ [][Next]_vars

(* ------------------------- vocabulary of the claims --------------------- *)

\* The FormField objects held under name, in either table.
RecordsOf(name) ==
    { formFields[i] : i \in { j \in 1..Len(formFields) : formFields[j].name = name } }
    \cup
    { conditionallyRemovedFormFields[i] :
        i \in { j \in 1..Len(conditionallyRemovedFormFields) :
                  conditionallyRemovedFormFields[j].name = name } }

\* How many isShowing calls of a log were made for name.
Evaluations(calls, name) == Len(SelectSeq(calls, LAMBDA c : c.name = name))

\* name is a key of the object getValues() returns for these visible fields.
InValues(ff, name) ==
    \E i \in 1..Len(getValues(Form(ff, <<>>))) :
        getValues(Form(ff, <<>>))[i].name = name

\* This step is updateFormFieldStateOnValueChange(call'.name, call'.arg) on a
\* visible field whose value is not === call'.arg.
ValueChanging ==
    /\ call'.op = "updateFormFieldStateOnValueChange"
    /\ Has(formFields, call'.name)
    /\ ~StrictEquals(Lookup(formFields, call'.name).value, call'.arg)

\* This step is updateFormFieldStateOnValueChange(call'.name, call'.arg) on a
\* visible field whose value is === call'.arg.
SameValue ==
    /\ call'.op = "updateFormFieldStateOnValueChange"
    /\ Has(formFields, call'.name)
    /\ StrictEquals(Lookup(formFields, call'.name).value, call'.arg)

(* -------------------------------- C1 ------------------------------------ *)

\* C1: every name added and not given to removeFormField since is a key of
\* exactly one of formFields and conditionallyRemovedFormFields.
C1_ExactlyOneTable ==
    \A n \in added :
        Has(formFields, n) # Has(conditionallyRemovedFormFields, n)

(* -------------------------------- C2 ------------------------------------ *)

\* C2: in a value-changing updateFormFieldStateOnValueChange(name, v), every
\* field that depends on name, visible or removed when the call starts, has its
\* isShowing predicate evaluated exactly once.
C2_DependentEvaluatedOnce ==
    [][ ValueChanging =>
          \A n \in Names :
              (\E f \in RecordsOf(n) : HasDependency(f, call'.name))
                  => Evaluations(isShowingCalls', n) = 1 ]_vars

(* -------------------------------- C3 ------------------------------------ *)

\* C3: after a value-changing updateFormFieldStateOnValueChange(A, v), every
\* other field B that depends on A and whose predicate is "A's value is US" is
\* visible if v is US, and removed and absent from getValues() if it is not.
C3_DependentFollowsPredicate ==
    [][ ValueChanging =>
          \A B \in Names \ {call'.name} :
              \A f \in RecordsOf(B) :
                  f.conditional = IsUSConditional(call'.name) =>
                      IF StrictEquals(call'.arg, "US")
                      THEN Has(formFields', B)
                      ELSE /\ Has(conditionallyRemovedFormFields', B)
                           /\ ~Has(formFields', B)
                           /\ ~InValues(formFields', B) ]_vars

\* C3, when no name is a key of both tables as the call starts.
C3_WithoutDuplicateName ==
    [][ ( /\ ValueChanging
          /\ \A n \in Names : ~( /\ Has(formFields, n)
                                 /\ Has(conditionallyRemovedFormFields, n) ) )
        => \A B \in Names \ {call'.name} :
              \A f \in RecordsOf(B) :
                  f.conditional = IsUSConditional(call'.name) =>
                      IF StrictEquals(call'.arg, "US")
                      THEN Has(formFields', B)
                      ELSE /\ Has(conditionallyRemovedFormFields', B)
                           /\ ~Has(formFields', B)
                           /\ ~InValues(formFields', B) ]_vars

(* -------------------------------- C4 ------------------------------------ *)

\* C4: in a value-changing updateFormFieldStateOnValueChange(A, v), a field C
\* other than A whose dependencies do not contain A has its predicate evaluated
\* zero times and stays in the table it was in.
C4_OneLevelOnly ==
    [][ ValueChanging =>
          \A C \in Names \ {call'.name} :
              \A f \in RecordsOf(C) :
                  ~HasDependency(f, call'.name) =>
                      /\ ~\E i \in 1..Len(isShowingCalls') :
                             isShowingCalls'[i].formField = f
                      /\ (Has(formFields, C) /\ Lookup(formFields, C) = f)
                             => (Has(formFields', C) /\ Lookup(formFields', C) = f)
                      /\ (Has(conditionallyRemovedFormFields, C)
                             /\ Lookup(conditionallyRemovedFormFields, C) = f)
                             => (Has(conditionallyRemovedFormFields', C)
                                 /\ Lookup(conditionallyRemovedFormFields', C) = f)
      ]_vars

\* C4, when no name is a key of both tables as the call starts.
C4_WithoutDuplicateName ==
    [][ ( /\ ValueChanging
          /\ \A n \in Names : ~( /\ Has(formFields, n)
                                 /\ Has(conditionallyRemovedFormFields, n) ) )
        => \A C \in Names \ {call'.name} :
              \A f \in RecordsOf(C) :
                  ~HasDependency(f, call'.name) =>
                      /\ ~\E i \in 1..Len(isShowingCalls') :
                             isShowingCalls'[i].formField = f
                      /\ (Has(formFields, C) /\ Lookup(formFields, C) = f)
                             => (Has(formFields', C) /\ Lookup(formFields', C) = f)
                      /\ (Has(conditionallyRemovedFormFields, C)
                             /\ Lookup(conditionallyRemovedFormFields, C) = f)
                             => (Has(conditionallyRemovedFormFields', C)
                                 /\ Lookup(conditionallyRemovedFormFields', C) = f)
      ]_vars

(* -------------------------------- C5 ------------------------------------ *)

\* C5: removeFormField(name) on a name held by either table returns the field
\* and leaves the name in neither table and out of getValues(); and a name in
\* neither table stays in neither until addFormField is called with it.
C5_RemoveDeletesFromEither ==
    [][ /\ ( /\ call'.op = "removeFormField"
             /\ (Has(formFields, call'.name)
                    \/ Has(conditionallyRemovedFormFields, call'.name)) )
           => /\ ret'.kind = "field"
              /\ ~Has(formFields', call'.name)
              /\ ~Has(conditionallyRemovedFormFields', call'.name)
              /\ ~InValues(formFields', call'.name)
        /\ \A n \in Names :
             ( /\ ~Has(formFields, n)
               /\ ~Has(conditionallyRemovedFormFields, n)
               /\ ~(call'.op = "addFormField" /\ call'.name = n) )
             => /\ ~Has(formFields', n)
                /\ ~Has(conditionallyRemovedFormFields', n) ]_vars

(* -------------------------------- C6 ------------------------------------ *)

\* C6: removeFormField(name) on a name in neither table throws and leaves both
\* tables as they were.
C6_RemoveUnknownThrows ==
    [][ ( /\ call'.op = "removeFormField"
          /\ ~Has(formFields, call'.name)
          /\ ~Has(conditionallyRemovedFormFields, call'.name) )
        => /\ call'.threw
           /\ formFields' = formFields
           /\ conditionallyRemovedFormFields' = conditionallyRemovedFormFields
      ]_vars

(* -------------------------------- C7 ------------------------------------ *)

\* C7: updateFormFieldStateOnValueChange, updateFormFieldStateOnBlur and
\* runValidations on a name that is not a visible field, and runConditional on
\* a name in neither table, throw; no field and no table changes and no rule
\* and no predicate is evaluated.
C7_UnknownNameThrowsFirst ==
    [][ ( \/ /\ call'.op \in { "updateFormFieldStateOnValueChange",
                               "updateFormFieldStateOnBlur",
                               "runValidations" }
             /\ ~Has(formFields, call'.name)
          \/ /\ call'.op = "runConditional"
             /\ ~Has(formFields, call'.name)
             /\ ~Has(conditionallyRemovedFormFields, call'.name) )
        => /\ call'.threw
           /\ formFields' = formFields
           /\ conditionallyRemovedFormFields' = conditionallyRemovedFormFields
           /\ isShowingCalls' = <<>>
           /\ validateCalls' = <<>> ]_vars

\* A value change was asked of a conditionally removed field, and threw.
C7_Witness ==
    /\ call.op = "updateFormFieldStateOnValueChange"
    /\ call.threw
    /\ ~Has(formFields, call.name)
    /\ Has(conditionallyRemovedFormFields, call.name)

(* -------------------------------- C8 ------------------------------------ *)

\* C8: updateFormFieldStateOnValueChange(name, v) on a visible field whose value
\* is === v sets its isTouched and changes nothing else; no rule and no
\* predicate is evaluated and no field changes table.
C8_SameValueOnlyTouches ==
    [][ SameValue =>
          /\ ~call'.threw
          /\ formFields' =
                 Put(formFields, call'.name,
                     [Lookup(formFields, call'.name) EXCEPT !.isTouched = TRUE])
          /\ Lookup(formFields', call'.name).isTouched
          /\ conditionallyRemovedFormFields' = conditionallyRemovedFormFields
          /\ isShowingCalls' = <<>>
          /\ validateCalls' = <<>> ]_vars

\* A same-value call was made on a field with rules and a dependent: no rule
\* ran (isValid is still what the rules would no longer give) and the field is
\* touched.
C8_Witness ==
    /\ call.op = "updateFormFieldStateOnValueChange"
    /\ ~call.threw
    /\ Has(formFields, call.name)
    /\ StrictEquals(Lookup(formFields, call.name).value, call.arg)
    /\ Lookup(formFields, call.name).isTouched
    /\ Lookup(formFields, call.name).validationRules # <<>>
    /\ Lookup(formFields, call.name).isValid
           # getValidityOfFormField(Lookup(formFields, call.name)).isValid
    /\ validateCalls = <<>>
    /\ isShowingCalls = <<>>

(* -------------------------------- C9 ------------------------------------ *)

\* C9: for every visible field and every value v, the second of two
\* updateFormFieldStateOnValueChange(name, v) calls in a row evaluates no rule
\* and no predicate and leaves the form as the first call left it.
C9_SecondCallIsNoOp ==
    [][ ( /\ call'.op = "updateFormFieldStateOnValueChange"
          /\ call'.again
          /\ ~call.threw )
        => /\ formFields' = formFields
           /\ conditionallyRemovedFormFields' = conditionallyRemovedFormFields
           /\ isShowingCalls' = <<>>
           /\ validateCalls' = <<>> ]_vars

\* C9 as amended: the same, for every value v that is === v (every value but NaN).
C9_SecondCallIsNoOpUnlessNaN ==
    [][ ( /\ call'.op = "updateFormFieldStateOnValueChange"
          /\ call'.again
          /\ ~call.threw
          /\ StrictEquals(call'.arg, call'.arg) )
        => /\ formFields' = formFields
           /\ conditionallyRemovedFormFields' = conditionallyRemovedFormFields
           /\ isShowingCalls' = <<>>
           /\ validateCalls' = <<>> ]_vars

\* The second of two equal calls returned, on a field that has rules and lists
\* itself among its dependencies.
C9_Witness ==
    /\ call.op = "updateFormFieldStateOnValueChange"
    /\ call.again
    /\ ~call.threw
    /\ call.arg # NaN
    /\ Has(formFields, call.name)
    /\ Lookup(formFields, call.name).validationRules # <<>>
    /\ HasDependency(Lookup(formFields, call.name), call.name)

(* -------------------------------- C10 ----------------------------------- *)

\* C10: isFormValid() is true exactly when every visible field has isValid
\* true (true when there is none); conditionally removed fields do not count.
C10_FormValidIffVisibleValid ==
    /\ isFormValid(ThisForm) <=>
           \A i \in 1..Len(formFields) : formFields[i].isValid
    /\ call.op = "isFormValid" =>
           ret = [kind |-> "boolean",
                  value |-> \A i \in 1..Len(formFields) : formFields[i].isValid]

\* isFormValid() returned true with a visible field and an invalid removed field.
C10_Witness ==
    /\ call.op = "isFormValid"
    /\ ret = [kind |-> "boolean", value |-> TRUE]
    /\ Len(formFields) > 0
    /\ \E i \in 1..Len(conditionallyRemovedFormFields) :
           ~conditionallyRemovedFormFields[i].isValid

(* -------------------------------- C11 ----------------------------------- *)

\* C11: getValues() returns the names of the visible fields, each with that
\* field's value; no name held by conditionallyRemovedFormFields and no name
\* given to removeFormField (and not added since) is a key of it; the call
\* changes no table.
C11_ValuesOfVisibleOnly ==
    [][ call'.op = "getValues" =>
          /\ ret'.kind = "values"
          /\ ret'.values = [i \in 1..Len(formFields) |->
                               [name |-> formFields[i].name,
                                value |-> formFields[i].value]]
          /\ \A n \in Names :
                 (Has(conditionallyRemovedFormFields, n) \/ n \notin added)
                     => ~\E i \in 1..Len(ret'.values) : ret'.values[i].name = n
          /\ formFields' = formFields
          /\ conditionallyRemovedFormFields' = conditionallyRemovedFormFields
      ]_vars

\* C11 without its sentence on removed and destroyed names: the snapshot is of
\* the visible fields, one entry per key, and the call changes no table.
C11_SnapshotOfVisibleFields ==
    [][ call'.op = "getValues" =>
          /\ ret'.kind = "values"
          /\ ret'.values = [i \in 1..Len(formFields) |->
                               [name |-> formFields[i].name,
                                value |-> formFields[i].value]]
          /\ \A i, j \in 1..Len(ret'.values) :
                 ret'.values[i].name = ret'.values[j].name => i = j
          /\ formFields' = formFields
          /\ conditionallyRemovedFormFields' = conditionallyRemovedFormFields
      ]_vars

(* -------------------------------- C12 ----------------------------------- *)

\* The indices of the rules of formField that fail on its value.
FailingRules(formField) ==
    { i \in 1..Len(formField.validationRules) :
        ~Validate(formField.validationRules[i], formField.value) }

\* The least index of a set of indices.
First(indices) == CHOOSE i \in indices : \A j \in indices : i <= j

\* C12: runValidations(name) on a visible field calls validate on its rules in
\* declaration order with the current value, up to and including the first rule
\* that fails; it writes isValid false and that rule's errorMessage, or isValid
\* true and '' when no rule fails; nothing else changes.
C12_FirstFailingRuleWins ==
    [][ (call'.op = "runValidations" /\ Has(formFields, call'.name)) =>
          LET f == Lookup(formFields, call'.name)
              rules == f.validationRules
              failing == FailingRules(f)
              last == IF failing = {} THEN Len(rules) ELSE First(failing)
          IN  /\ ~call'.threw
              /\ validateCalls' = [i \in 1..last |->
                                      [name |-> f.name, type |-> rules[i].type,
                                       value |-> f.value]]
              /\ formFields' = Put(formFields, f.name,
                     [f EXCEPT !.isValid = (failing = {}),
                               !.errorMessage =
                                   IF failing = {} THEN ""
                                   ELSE rules[First(failing)].errorMessage])
              /\ conditionallyRemovedFormFields' = conditionallyRemovedFormFields
              /\ isShowingCalls' = <<>> ]_vars

\* runValidations ran REQUIRED then MIN_LENGTH on an empty value: only REQUIRED
\* was called and its message is the one written.
C12_Witness ==
    /\ call.op = "runValidations"
    /\ ~call.threw
    /\ Lookup(formFields, call.name).value = ""
    /\ Lookup(formFields, call.name).validationRules
           = <<REQUIRED_RULE, MIN_LENGTH_RULE>>
    /\ ~Lookup(formFields, call.name).isValid
    /\ Lookup(formFields, call.name).errorMessage = REQUIRED_RULE.errorMessage
    /\ Len(validateCalls) = 1

(* -------------------------------- C13 ----------------------------------- *)

\* C13: runConditional(name, reason) run a second time immediately after a
\* first run that found the field (in either table) finds it again and leaves
\* both tables, and so every field record, exactly as the first run left them.
C13_SecondRunConditionalChangesNothing ==
    [][ (call'.op = "runConditional" /\ call'.again /\ ~call.threw) =>
          /\ ~call'.threw
          /\ Len(isShowingCalls') = 1
          /\ formFields' = formFields
          /\ conditionallyRemovedFormFields' = conditionallyRemovedFormFields
      ]_vars

\* runConditional has just run for the second time in a row on a field that the
\* first run had hidden.
C13_Witness ==
    /\ call.op = "runConditional"
    /\ call.again
    /\ ~call.threw
    /\ Has(conditionallyRemovedFormFields, call.name)
    /\ ~Has(formFields, call.name)

(* -------------------------------- C14 ----------------------------------- *)

\* Some FormField object held under name has isTouched true.
Touched(name) == \E f \in RecordsOf(name) : f.isTouched

\* C14: a name whose field has isTouched true, and which is still a key of a
\* table after the next operation, has isTouched true after it, whatever the
\* operation and whichever table holds the field.
C14_TouchedStaysTouched ==
    [][ \A n \in Names :
            (Touched(n) /\ RecordsOf(n)' # {})
                => \A f \in RecordsOf(n)' : f.isTouched ]_vars

\* C14 for every operation but addFormField on a name that is already a key,
\* from states where no name is a key of both tables.
C14_ExceptAddOfExistingName ==
    [][ ( /\ ~(call'.op = "addFormField" /\ RecordsOf(call'.name) # {})
          /\ \A n \in Names : ~( /\ Has(formFields, n)
                                 /\ Has(conditionallyRemovedFormFields, n) ) )
        => \A n \in Names :
               (Touched(n) /\ RecordsOf(n)' # {})
                   => \A f \in RecordsOf(n)' : f.isTouched ]_vars

(* -------------------------------- C15 ----------------------------------- *)

\* The FormField objects of both tables.
AllRecords == UNION { RecordsOf(n) : n \in Names }

\* C15: every field of either table has errorMessage '' exactly when isValid is
\* true, and when isValid is false errorMessage is the message of the first of
\* its rules that fails on its value.
C15_MessageMatchesValidity ==
    \A f \in AllRecords :
        /\ (f.errorMessage = "") <=> f.isValid
        /\ ~f.isValid =>
               /\ FailingRules(f) # {}
               /\ f.errorMessage
                      = f.validationRules[First(FailingRules(f))].errorMessage

\* This step validates the field call'.name: runValidations or
\* updateFormFieldStateOnBlur on a visible field, or a value-changing
\* updateFormFieldStateOnValueChange.
Validating ==
    \/ /\ call'.op \in {"runValidations", "updateFormFieldStateOnBlur"}
       /\ Has(formFields, call'.name)
    \/ ValueChanging

\* The field the step's call was made on, in the table that holds it after the
\* call (propagation may have moved it).
FieldAfter ==
    IF Has(formFields', call'.name) THEN Lookup(formFields', call'.name)
    ELSE Lookup(conditionallyRemovedFormFields', call'.name)

\* C15 as the code has it: after any step a valid field has errorMessage '';
\* after a step that validates a field, that field's errorMessage is '' exactly
\* when it is valid, and is otherwise the message of the first of its rules that
\* fails on its value; a field just added is not valid and has errorMessage ''.
C15_MessageMatchesLastValidation ==
    [][ /\ \A f \in AllRecords' : f.isValid => f.errorMessage = ""
        /\ Validating =>
               LET f == FieldAfter IN
               /\ (f.errorMessage = "") <=> f.isValid
               /\ ~f.isValid =>
                      /\ FailingRules(f) # {}
                      /\ f.errorMessage
                             = f.validationRules[First(FailingRules(f))].errorMessage
        /\ call'.op = "addFormField" =>
               /\ ~Lookup(formFields', call'.name).isValid
               /\ Lookup(formFields', call'.name).errorMessage = ""
      ]_vars

\* A value-changing update has just validated a field whose second rule is the
\* first to fail, and the field carries that rule's message.
C15_Witness ==
    /\ call.op = "updateFormFieldStateOnValueChange"
    /\ ~call.threw
    /\ Has(formFields, call.name)
    /\ Lookup(formFields, call.name).value = "CA"
    /\ Lookup(formFields, call.name).validationRules
           = <<REQUIRED_RULE, MIN_LENGTH_RULE>>
    /\ ~Lookup(formFields, call.name).isValid
    /\ Lookup(formFields, call.name).errorMessage = MIN_LENGTH_RULE.errorMessage

(* -------------------------------- C16 ----------------------------------- *)

\* The operations C16 says never move a field nor evaluate a predicate.
NonMovingOps ==
    { "updateFormFieldStateOnBlur", "runValidations", "isFormValid", "getValues",
      "getVisibleFormFields", "getConditionallyRemovedFormFields",
      "getVisibleFormFieldByName" }

\* The tables that hold name: <<is visible, is conditionally removed>>.
Membership(ff, removed, name) == << Has(ff, name), Has(removed, name) >>

\* C16: addFormField leaves the name visible; a name's membership of the two
\* tables then changes only in a call that evaluates its isShowing predicate
\* (runConditional, directly or from a value change), addFormField and
\* removeFormField of that name aside; blur, runValidations, isFormValid,
\* getValues and the getters keep the keys of both tables and evaluate no
\* predicate, and blur changes nothing but isTouched, isValid and errorMessage
\* of the named field.
C16_OnlyRunConditionalMoves ==
    [][ /\ call'.op = "addFormField" => Has(formFields', call'.name)
        /\ \A n \in Names :
               ( /\ Membership(formFields', conditionallyRemovedFormFields', n)
                      # Membership(formFields, conditionallyRemovedFormFields, n)
                 /\ ~( /\ call'.op \in {"addFormField", "removeFormField"}
                       /\ call'.name = n ) )
               => /\ call'.op \in {"runConditional",
                                   "updateFormFieldStateOnValueChange"}
                  /\ Evaluations(isShowingCalls', n) >= 1
        /\ call'.op \in NonMovingOps =>
               /\ Keys(formFields') = Keys(formFields)
               /\ conditionallyRemovedFormFields' = conditionallyRemovedFormFields
               /\ isShowingCalls' = <<>>
        /\ (call'.op = "updateFormFieldStateOnBlur" /\ ~call'.threw) =>
               \A i \in 1..Len(formFields) :
                   IF formFields[i].name = call'.name
                   THEN /\ formFields'[i].isTouched
                        /\ formFields'[i].isValid = (FailingRules(formFields[i]) = {})
                        /\ [formFields'[i] EXCEPT
                               !.isTouched = formFields[i].isTouched,
                               !.isValid = formFields[i].isValid,
                               !.errorMessage = formFields[i].errorMessage]
                           = formFields[i]
                   ELSE formFields'[i] = formFields[i]
      ]_vars

\* updateFormFieldStateOnBlur has just run on a field whose value is not "US"
\* while a visible field shows only when that value is "US": a value change
\* would have hidden the dependent, the blur left it visible.
C16_Witness ==
    /\ call.op = "updateFormFieldStateOnBlur"
    /\ ~call.threw
    /\ ~StrictEquals(Lookup(formFields, call.name).value, "US")
    /\ \E n \in Names :
           /\ Has(formFields, n)
           /\ Lookup(formFields, n).conditional = IsUSConditional(call.name)

(* -------------------------------- C17 ----------------------------------- *)

\* No name is a key of both tables.
NoNameInBothTables ==
    \A n \in Names : ~(Has(formFields, n) /\ Has(conditionallyRemovedFormFields, n))

\* What C17 says of a step: runConditional leaves every FormField object as it
\* was and moves no field but the named one; a value change does the same for
\* every field but the one whose value it writes; and whatever the operation, a
\* conditionally removed field is still there, unchanged, in one of the tables
\* for as long as its name is a key, so that it is shown again as it was hidden.
SameRecordsMoved ==
    /\ (call'.op = "runConditional" /\ ~call'.threw) =>
           /\ \A n \in Names : RecordsOf(n)' = RecordsOf(n)
           /\ \A n \in Names \ {call'.name} :
                  Membership(formFields', conditionallyRemovedFormFields', n)
                      = Membership(formFields, conditionallyRemovedFormFields, n)
    /\ (call'.op = "updateFormFieldStateOnValueChange" /\ ~call'.threw) =>
           \A n \in Names \ {call'.name} : RecordsOf(n)' = RecordsOf(n)
    /\ \A n \in Names :
           (Has(conditionallyRemovedFormFields, n) /\ RecordsOf(n)' # {})
               => Lookup(conditionallyRemovedFormFields, n) \in RecordsOf(n)'

\* C17: runConditional moves the FormField object itself and changes nothing
\* but the table that holds the named field; no other field changes, and a
\* hidden field shown again has the value and validity it was hidden with.
C17_MovesTheSameRecord == [][ SameRecordsMoved ]_vars

\* C17 from states where no name is a key of both tables.
C17_WithoutDuplicateName == [][ NoNameInBothTables => SameRecordsMoved ]_vars

(* -------------------------------- C18 ----------------------------------- *)

\* Every added name with a field that has the default conditional is a key of
\* formFields and not of conditionallyRemovedFormFields.
DefaultIsVisible ==
    \A n \in added :
        (\E f \in RecordsOf(n) : f.conditional = DefaultConditional)
            => /\ Has(formFields, n)
               /\ ~Has(conditionallyRemovedFormFields, n)

\* This step, if an updateFormFieldStateOnValueChange, evaluates the predicate
\* of no field that has the default conditional.
NoDefaultEvaluated ==
    call'.op = "updateFormFieldStateOnValueChange" =>
        \A i \in 1..Len(isShowingCalls') :
            isShowingCalls'[i].formField.conditional # DefaultConditional

\* C18: a field with the default conditional is visible and not conditionally
\* removed in every state from addFormField to removeFormField, and no
\* updateFormFieldStateOnValueChange evaluates its predicate.
C18_DefaultConditionalAlwaysVisible ==
    [][ DefaultIsVisible' /\ NoDefaultEvaluated ]_vars

\* C18 for states in which, and steps from which, no name is a key of both
\* tables.
C18_WithoutDuplicateName ==
    [][ /\ NoNameInBothTables' => DefaultIsVisible'
        /\ NoNameInBothTables => NoDefaultEvaluated ]_vars

(* -------------------------------- C19 ----------------------------------- *)

\* The names of a log of isShowing calls, in call order.
NamesOf(calls) == [i \in 1..Len(calls) |-> calls[i].name]

\* What C19 says of a value-changing updateFormFieldStateOnValueChange(name, v).
\* The validate calls are the rules of name, in order up to the first failure,
\* on v, and no others.  The isShowing calls are, in this order: the visible
\* dependents of name in the key order formFields had as the call started, then
\* the conditionally removed dependents of name in key order, those the first
\* loop has just hidden last; each call is made for a field that depends on
\* name, with name as the reason.  A call made for name itself sees it touched,
\* with value v and validated, as the call leaves it.
UpdateOrder ==
    LET name == call'.name
        written == [Lookup(formFields, name) EXCEPT !.value = call'.arg]
        rules == written.validationRules
        failing == FailingRules(written)
        last == IF failing = {} THEN Len(rules) ELSE First(failing)
        visibleDeps == FieldsWithDepsOn(formFields, name)
        removedDeps == FieldsWithDepsOn(conditionallyRemovedFormFields, name)
        justHidden == SelectSeq(visibleDeps,
                          LAMBDA n : Has(conditionallyRemovedFormFields', n))
    IN  /\ ~call'.threw
        /\ FieldAfter.isTouched
        /\ FieldAfter.value = call'.arg
        /\ FieldAfter.isValid = (failing = {})
        /\ validateCalls' = [i \in 1..last |->
                                [name |-> name, type |-> rules[i].type,
                                 value |-> call'.arg]]
        /\ NamesOf(isShowingCalls') = visibleDeps \o removedDeps \o justHidden
        /\ \A i \in 1..Len(isShowingCalls') :
               /\ isShowingCalls'[i].reason = name
               /\ HasDependency(isShowingCalls'[i].formField, name)
               /\ isShowingCalls'[i].name = name
                      => isShowingCalls'[i].formField = FieldAfter

\* C19: a value-changing updateFormFieldStateOnValueChange(name, v) sets
\* isTouched, writes v, validates name on v, then evaluates the predicates of the
\* visible dependents of name in the key order from before any move, and only
\* then those of the conditionally removed dependents; it validates no other
\* field.
C19_OrderWithinUpdate == [][ ValueChanging => UpdateOrder ]_vars

\* C19 for calls that start with no name a key of both tables.
C19_WithoutDuplicateName ==
    [][ (ValueChanging /\ NoNameInBothTables) => UpdateOrder ]_vars

(* -------------------------------- C20 ----------------------------------- *)

\* C20: every visible field with isTouched true has isValid equal to the
\* result of its rules on its value.
C20_TouchedIsValidated ==
    \A i \in 1..Len(formFields) :
        formFields[i].isTouched
            => formFields[i].isValid = (FailingRules(formFields[i]) = {})

\* C20 as the code has it: a value-changing updateFormFieldStateOnValueChange
\* and an updateFormFieldStateOnBlur leave the field touched with isValid equal
\* to the result of its rules on its value; a same-value
\* updateFormFieldStateOnValueChange leaves it touched with the isValid it had.
C20_TouchedByValidatingCallIsValidated ==
    [][ /\ ( \/ ValueChanging
             \/ /\ call'.op = "updateFormFieldStateOnBlur"
                /\ Has(formFields, call'.name) )
           => /\ FieldAfter.isTouched
              /\ FieldAfter.isValid = (FailingRules(FieldAfter) = {})
        /\ SameValue
           => /\ FieldAfter.isTouched
              /\ FieldAfter.isValid = Lookup(formFields, call'.name).isValid
      ]_vars

\* A value change has just made a field with the REQUIRED rule, invalid on its
\* old empty value, valid on "US".
C20_Witness ==
    /\ call.op = "updateFormFieldStateOnValueChange"
    /\ ~call.threw
    /\ call.arg = "US"
    /\ Len(validateCalls) = 1
    /\ Has(formFields, call.name)
    /\ Lookup(formFields, call.name).validationRules = <<REQUIRED_RULE>>
    /\ Lookup(formFields, call.name).isTouched
    /\ Lookup(formFields, call.name).isValid

====
